---- MODULE Spec2Model ----
(***************************************************************************)
(* Model of file_transfer/docker.go: DockerService, a thin client of the   *)
(* container runtime.  The service itself holds only the runtime client;   *)
(* all container state lives in the runtime, which is modelled here as the *)
(* environment the service's calls act on.  Each caller is a process that  *)
(* runs one operation at a time; operations of different callers           *)
(* interleave at the runtime calls.                                        *)
(*                                                                         *)
(* Strings are sequences: "" is << >>, a container id is <<n>>.            *)
(***************************************************************************)
EXTENDS Integers, Sequences, FiniteSets, TLC

(* ---- bounds ---- *)
MaxContainers == 2      \* containers the runtime creates in one behaviour
MaxExecs == 1           \* execution sessions the runtime creates
MaxTimeout == 1         \* largest timeout (seconds) passed to ExecContainer
MaxFrames == 1          \* frames one command writes
MaxPayload == 1         \* bytes in one frame's payload
Margin == 1             \* the "small bounded margin" after the deadline
MaxConcurrentExecs == 1 \* ExecContainer calls in progress at the same time

Procs == {"p1", "p2"}
MaxTime == MaxTimeout + Margin + 1

Empty == << >>
NoSuchId == <<0>>                       \* an identifier the runtime never issued
IdOf(n) == <<n>>
NumOf(id) == id[1]

Nil == "nil"
ErrRuntime == "runtime error"
ErrDeadline == "context deadline exceeded"
ErrRead == "read error"

VARIABLES
    containers,   \* runtime: sequence of container records, index n has id <<n>>
    execs,        \* runtime: sequence of execution-session records
    proc,         \* per caller: the operation in progress and its locals
    handles       \* identifiers callers hold (returned by RunImage with ok)

vars == <<containers, execs, proc, handles>>

(* ---- the runtime ---- *)
Exists(id) == id # Empty /\ NumOf(id) \in 1..Len(containers)
StateOf(id) == IF Exists(id) THEN containers[NumOf(id)].state ELSE "none"

(* A caller can only name an identifier it was given, or one that never existed. *)
KnownIds == handles \cup {NoSuchId}

Idle == [op |-> "idle", pc |-> "idle", calls |-> << >>]

(* one runtime call as the service issued it *)
Call(api, target, args, err, resp) ==
    [api |-> api, target |-> target, args |-> args, err |-> err, resp |-> resp]

Init ==
    /\ containers = << >>
    /\ execs = << >>
    /\ proc = [p \in Procs |-> Idle]
    /\ handles = {}

(* ---- RunImage (docker.go:31-82) ---- *)
AllMasked == <<"/etc", "/sys", "/proc/tty", "/proc/sys", "/proc/sysrq-trigger",
               "/proc/cmdline", "/proc/config.gz", "/proc/mounts", "/proc/fs",
               "/proc/device-tree", "/proc/bus">>

masked_Dropped(mask) == IF mask THEN SubSeq(AllMasked, 1, Len(AllMasked) - 1) ELSE << >>

masked(mask) == IF mask THEN AllMasked ELSE << >>

network_Bridge(networkhosted) == IF networkhosted THEN "host" ELSE "bridge"

network(networkhosted) == IF networkhosted THEN "host" ELSE ""

Config(networkdisabled) == [NetworkDisabled |-> networkdisabled]

HostConfig_NoAutoRemove(mask, ReadonlyRootfs, networkhosted) ==
    [MaskedPaths |-> masked(mask),
     ReadonlyRootfs |-> ReadonlyRootfs,
     AutoRemove |-> FALSE,
     NetworkMode |-> network(networkhosted),
     Ulimits |-> <<[Name |-> "memlock", Soft |-> -1, Hard |-> -1]>>]

HostConfig(mask, ReadonlyRootfs, networkhosted) ==
    [MaskedPaths |-> masked(mask),
     ReadonlyRootfs |-> ReadonlyRootfs,
     AutoRemove |-> TRUE,
     NetworkMode |-> network(networkhosted),
     Ulimits |-> <<[Name |-> "memlock", Soft |-> -1, Hard |-> -1]>>]

(* the runtime's ContainerCreate: a new container in state created, or an error *)
ContainerCreate(p, req, config, hostConfig, err) ==
    LET call == Call("ContainerCreate", Empty,
                     [req |-> req, Config |-> config, HostConfig |-> hostConfig], err,
                     IF err = Nil THEN IdOf(Len(containers) + 1) ELSE Empty)
    IN  IF err = Nil
          THEN /\ Len(containers) < MaxContainers
               /\ containers' = Append(containers,
                      [state |-> "created", AutoRemove |-> hostConfig.AutoRemove, starts |-> 0])
               /\ proc' = [proc EXCEPT ![p] =
                      [op |-> "RunImage", pc |-> "start", id |-> call.resp,
                       calls |-> <<call>>]]
          ELSE /\ containers' = containers
               /\ proc' = [proc EXCEPT ![p] =
                      [op |-> "RunImage", pc |-> "done", id |-> Empty,
                       calls |-> <<call>>, ret |-> [ok |-> FALSE, id |-> Empty]]]

Requests == [mask : BOOLEAN, ReadonlyRootfs : BOOLEAN,
             networkdisabled : BOOLEAN, networkhosted : BOOLEAN]

RunImage_Create(p, reqs) ==
    /\ proc[p].pc = "idle"
    /\ \E req \in reqs : \E err \in {Nil, ErrRuntime} :
          ContainerCreate(p, req, Config(req.networkdisabled),
              HostConfig(req.mask, req.ReadonlyRootfs, req.networkhosted), err)
    /\ UNCHANGED <<execs, handles>>

(* the runtime's ContainerStart: created -> running, or an error; the runtime
   counts the start requests it receives for the container *)
StartEffect(id, calls) ==
    containers' = [containers EXCEPT ![NumOf(id)] =
        [@ EXCEPT !.starts = @ + Len(calls),
                  !.state = IF calls[Len(calls)].err = Nil THEN "running" ELSE @]]

StartCalls_Reclaim(id, err) ==
    IF err # Nil
      THEN <<Call("ContainerStart", id, << >>, err, Empty),
             Call("ContainerRemove", id, << >>, Nil, Empty)>>
      ELSE <<Call("ContainerStart", id, << >>, err, Empty)>>

StartCalls_Retry(id, err) ==
    IF err # Nil
      THEN <<Call("ContainerStart", id, << >>, err, Empty),
             Call("ContainerStart", id, << >>, err, Empty)>>
      ELSE <<Call("ContainerStart", id, << >>, err, Empty)>>

(* the start requests RunImage issues: one, whatever its outcome (docker.go:72) *)
StartCalls(id, err) == <<Call("ContainerStart", id, << >>, err, Empty)>>

RunImageReturn_KeepsId(id, err) ==
    IF err # Nil THEN [ok |-> FALSE, id |-> id] ELSE [ok |-> TRUE, id |-> id]

RunImageReturn(id, err) ==
    IF err # Nil THEN [ok |-> FALSE, id |-> Empty] ELSE [ok |-> TRUE, id |-> id]

RunImage_Start(p) ==
    /\ proc[p].op = "RunImage" /\ proc[p].pc = "start"
    /\ \E err \in {Nil, ErrRuntime} :
          /\ StartEffect(proc[p].id, StartCalls(proc[p].id, err))
          /\ proc' = [proc EXCEPT ![p] =
                 [op |-> "RunImage", pc |-> "done", id |-> proc[p].id,
                  calls |-> proc[p].calls \o StartCalls(proc[p].id, err),
                  ret |-> RunImageReturn(proc[p].id, err)]]
    /\ UNCHANGED <<execs, handles>>

(* ---- CleanContainer (docker.go:85-93) ---- *)
StopOptions == [Timeout |-> 1]

(* the runtime's ContainerStop: a running container stops (and is removed when it
   was created with AutoRemove); a container that is not running is left as it
   is; an identifier the runtime does not have is an error *)
StopErrs(id) == IF StateOf(id) \in {"none", "removed"} THEN {ErrRuntime} ELSE {Nil, ErrRuntime}

Killed == 128 + 9                       \* exit code of a process ended by SIGKILL

StopEffect(id, err) ==
    IF err = Nil /\ StateOf(id) = "running"
      THEN /\ containers' = [containers EXCEPT ![NumOf(id)].state =
                                IF containers[NumOf(id)].AutoRemove THEN "removed" ELSE "exited"]
           /\ execs' = [e \in DOMAIN execs |->
                          IF execs[e].container = id /\ execs[e].status = "running"
                            THEN [execs[e] EXCEPT !.status = "exited", !.ExitCode = Killed]
                            ELSE execs[e]]
      ELSE UNCHANGED <<containers, execs>>

CleanContainerCalls_Stale(id, err) == <<Call("ContainerStop", IdOf(1), StopOptions, err, Empty)>>

CleanContainerCalls_Remove(id, err) ==
    <<Call("ContainerStop", id, StopOptions, err, Empty),
      Call("ContainerRemove", id, << >>, err, Empty)>>

CleanContainerCalls(id, err) == <<Call("ContainerStop", id, StopOptions, err, Empty)>>

CleanContainer(p) ==
    /\ proc[p].pc = "idle"
    /\ \E id \in KnownIds : \E err \in StopErrs(id) :
          /\ StopEffect(id, err)
          /\ proc' = [proc EXCEPT ![p] =
                 [op |-> "CleanContainer", pc |-> "done", id |-> id,
                  calls |-> CleanContainerCalls(id, err),
                  ret |-> [returned |-> TRUE]]]
    /\ UNCHANGED handles

(* ---- GetContainerIP (docker.go:96-104) ---- *)
IPAddresses == {"", "172.17.0.2"}

(* the runtime's ContainerInspect: information about an existing container *)
InspectErrs(id) == IF StateOf(id) \in {"none", "removed"} THEN {ErrRuntime} ELSE {Nil, ErrRuntime}

GetContainerIPReturn(info, err) == IF err # Nil THEN "" ELSE info.IPAddress

GetContainerIP(p) ==
    /\ proc[p].pc = "idle"
    /\ \E id \in KnownIds : \E err \in InspectErrs(id) : \E ip \in IPAddresses :
          LET info == [IPAddress |-> IF err = Nil THEN ip ELSE ""]
          IN  /\ err # Nil => ip = ""
              /\ proc' = [proc EXCEPT ![p] =
                     [op |-> "GetContainerIP", pc |-> "done", id |-> id,
                      calls |-> <<Call("ContainerInspect", id, << >>, err, info)>>,
                      ret |-> GetContainerIPReturn(info, err)]]
    /\ UNCHANGED <<containers, execs, handles>>

(* ---- GetContainerLogs (docker.go:158-176) ---- *)
LogsOptions == [ShowStdout |-> TRUE, ShowStderr |-> TRUE]

LogContents == {<< >>, <<108>>}         \* what the container has logged so far

GetContainerLogs_Request(p) ==
    /\ proc[p].pc = "idle"
    /\ \E id \in KnownIds : \E err \in InspectErrs(id) : \E content \in LogContents :
          LET call == Call("ContainerLogs", id, LogsOptions, err,
                           IF err = Nil THEN content ELSE Empty)
          IN  /\ err # Nil => content = Empty
              /\ proc' = [proc EXCEPT ![p] =
                     IF err # Nil
                       THEN [op |-> "GetContainerLogs", pc |-> "done", id |-> id,
                             calls |-> <<call>>, ret |-> [str |-> Empty, err |-> err]]
                       ELSE [op |-> "GetContainerLogs", pc |-> "read", id |-> id,
                             calls |-> <<call>>, resp |-> content]]
    /\ UNCHANGED <<containers, execs, handles>>

GetContainerLogsReturn_Partial(res, err) ==
    IF err # Nil THEN [str |-> res, err |-> err] ELSE [str |-> res, err |-> Nil]

GetContainerLogsReturn(res, err) ==
    IF err # Nil THEN [str |-> Empty, err |-> err] ELSE [str |-> res, err |-> Nil]

(* io.ReadAll: the whole stream, or what was read before a read error *)
GetContainerLogs_Read(p) ==
    /\ proc[p].op = "GetContainerLogs" /\ proc[p].pc = "read"
    /\ \E err \in {Nil, ErrRead} : \E n \in 0..Len(proc[p].resp) :
          /\ err = Nil => n = Len(proc[p].resp)
          /\ proc' = [proc EXCEPT ![p] =
                 [op |-> "GetContainerLogs", pc |-> "done", id |-> proc[p].id,
                  calls |-> proc[p].calls, resp |-> proc[p].resp,
                  readErr |-> err,
                  ret |-> GetContainerLogsReturn(SubSeq(proc[p].resp, 1, n), err)]]
    /\ UNCHANGED <<containers, execs, handles>>

(* ---- the multiplexed output stream (stdcopy framing) ---- *)
StdType == [Stdin |-> 0, Stdout |-> 1, Stderr |-> 2, Systemerr |-> 3]

PayloadBytes == {104, 10}               \* "h", "\n"

RECURSIVE SeqsUpTo(_, _)
SeqsUpTo(S, n) ==
    IF n = 0 THEN {<< >>}
    ELSE LET shorter == SeqsUpTo(S, n - 1)
         IN  shorter \cup {Append(s, x) : s \in {t \in shorter : Len(t) = n - 1}, x \in S}

Payloads == SeqsUpTo(PayloadBytes, MaxPayload) \ {<< >>}
Frames == [stream : {StdType.Stdout, StdType.Stderr}, payload : Payloads]
ExitCodes == {0, 1}
(* sh -c cmd, by what it does: the frames it writes and the code it exits with *)
Commands == [frames : SeqsUpTo(Frames, MaxFrames), code : ExitCodes]

BE32(n) == <<(n \div 16777216) % 256, (n \div 65536) % 256, (n \div 256) % 256, n % 256>>
FromBE32(b) == b[1] * 16777216 + b[2] * 65536 + b[3] * 256 + b[4]

MuxFrame(f) == <<f.stream, 0, 0, 0>> \o BE32(Len(f.payload)) \o f.payload

RECURSIVE Mux(_)
Mux(fs) == IF fs = << >> THEN << >> ELSE MuxFrame(Head(fs)) \o Mux(Tail(fs))

RECURSIVE Written(_)
Written(fs) == IF fs = << >> THEN << >> ELSE Head(fs).payload \o Written(Tail(fs))

StdWriterPrefixLen == 8

(* stdcopy.StdCopy over the bytes read: every complete frame's payload goes to
   the sink its header names; an incomplete trailing frame is not written *)
RECURSIVE StdCopy(_, _)
StdCopy(bytes, sinks) ==
    IF Len(bytes) < StdWriterPrefixLen THEN sinks
    ELSE LET size == FromBE32(SubSeq(bytes, 5, 8))
             end == StdWriterPrefixLen + size
         IN  IF Len(bytes) < end \/ bytes[1] \notin {StdType.Stdin, StdType.Stdout, StdType.Stderr}
               THEN sinks
               ELSE LET payload == SubSeq(bytes, StdWriterPrefixLen + 1, end)
                        rest == SubSeq(bytes, end + 1, Len(bytes))
                    IN  IF bytes[1] = StdType.Stderr
                          THEN StdCopy(rest, [sinks EXCEPT !.stderr = @ \o payload])
                          ELSE StdCopy(rest, [sinks EXCEPT !.stdout = @ \o payload])

(* what the session has written to its output stream so far *)
StreamOf(e) == Mux(SubSeq(execs[e].cmd.frames, 1, execs[e].emitted))

(* ---- ExecContainer (docker.go:107-155) ---- *)
Timeouts == 1..MaxTimeout
NoRet == [code |-> 0, out |-> Empty, err |-> Nil]

ExecOptions(cmd) == [AttachStdout |-> TRUE, AttachStderr |-> TRUE, Cmd |-> <<"sh", "-c", cmd>>]

Expired(p) == proc[p].elapsed >= proc[p].timeout

(* context.WithTimeout and defer cancel (docker.go:108-109) *)
ExecContainer_Begin(p, cmds) ==
    /\ proc[p].pc = "idle"
    /\ Cardinality({q \in Procs : proc[q].op = "ExecContainer"}) < MaxConcurrentExecs
    /\ \E id \in KnownIds, cmd \in cmds, timeout \in Timeouts, stdout, stderr \in BOOLEAN :
          proc' = [proc EXCEPT ![p] =
              [op |-> "ExecContainer", pc |-> "create", id |-> id, cmd |-> cmd,
               timeout |-> timeout, stdout |-> stdout, stderr |-> stderr,
               elapsed |-> 0, execId |-> 0, buf |-> Empty,
               sinks |-> [stdout |-> Empty, stderr |-> Empty],
               copyErr |-> Nil, cancelled |-> FALSE, closes |-> 0,
               calls |-> << >>, ret |-> NoRet]]
    /\ UNCHANGED <<containers, execs, handles>>

ExecFail_NoClose(p, call, closes) ==
    [proc[p] EXCEPT !.pc = "done", !.calls = Append(@, call),
                    !.cancelled = TRUE,
                    !.ret = [code |-> -1, out |-> Empty, err |-> call.err]]

ExecFail_Kill(p, call, closes) ==
    [proc[p] EXCEPT !.pc = "done",
                    !.calls = @ \o <<call, Call("ContainerKill", proc[p].id, << >>, Nil, Empty)>>,
                    !.cancelled = TRUE, !.closes = @ + closes,
                    !.ret = [code |-> -1, out |-> Empty, err |-> call.err]]

ExecFail_Retry(p, call, closes) ==
    [proc[p] EXCEPT !.pc = "done", !.calls = @ \o <<call, call>>,
                    !.cancelled = TRUE, !.closes = @ + closes,
                    !.ret = [code |-> -1, out |-> Empty, err |-> call.err]]

ExecFail_KeepsOutput(p, call, closes) ==
    [proc[p] EXCEPT !.pc = "done", !.calls = Append(@, call),
                    !.cancelled = TRUE, !.closes = @ + closes,
                    !.ret = [code |-> -1, out |-> proc[p].buf, err |-> call.err]]

(* return -1, "", err with the deferred calls run *)
ExecFail(p, call, closes) ==
    [proc[p] EXCEPT !.pc = "done", !.calls = Append(@, call),
                    !.cancelled = TRUE, !.closes = @ + closes,
                    !.ret = [code |-> -1, out |-> Empty, err |-> call.err]]

(* ContainerExecCreate (docker.go:111-122) *)
ExecCreateErrs(p) ==
    IF Expired(p) THEN {ErrDeadline}
    ELSE IF StateOf(proc[p].id) = "running" THEN {Nil, ErrRuntime} ELSE {ErrRuntime}

ExecContainer_Create(p) ==
    /\ proc[p].op = "ExecContainer" /\ proc[p].pc = "create"
    /\ \E err \in ExecCreateErrs(p) :
          LET call == Call("ContainerExecCreate", proc[p].id, ExecOptions(proc[p].cmd), err,
                           IF err = Nil THEN Len(execs) + 1 ELSE 0)
          IN  IF err # Nil
                THEN /\ proc' = [proc EXCEPT ![p] = ExecFail(p, call, 0)]
                     /\ execs' = execs
                ELSE /\ Len(execs) < MaxExecs
                     /\ execs' = Append(execs,
                            [container |-> proc[p].id, cmd |-> proc[p].cmd,
                             status |-> "created", emitted |-> 0, ExitCode |-> 0])
                     /\ proc' = [proc EXCEPT ![p] =
                            [@ EXCEPT !.pc = "attach", !.execId = call.resp,
                                      !.calls = Append(@, call)]]
    /\ UNCHANGED <<containers, handles>>

(* ContainerExecAttach, which starts the session (docker.go:126-131) *)
ExecAttachErrs(p) ==
    IF Expired(p) THEN {ErrDeadline}
    ELSE IF StateOf(proc[p].id) = "running" THEN {Nil, ErrRuntime} ELSE {ErrRuntime}

ExecContainer_Attach(p) ==
    /\ proc[p].op = "ExecContainer" /\ proc[p].pc = "attach"
    /\ \E err \in ExecAttachErrs(p) :
          LET call == Call("ContainerExecAttach", proc[p].execId, << >>, err, Empty)
          IN  IF err # Nil
                THEN /\ proc' = [proc EXCEPT ![p] = ExecFail(p, call, 0)]
                     /\ execs' = execs
                ELSE /\ execs' = [execs EXCEPT ![proc[p].execId].status = "running"]
                     /\ proc' = [proc EXCEPT ![p] =
                            [@ EXCEPT !.pc = "copy", !.calls = Append(@, call)]]
    /\ UNCHANGED <<containers, handles>>

CopyInto_EitherSink(p, bytes) ==
    [proc[p] EXCEPT !.buf = bytes,
                    !.sinks = IF proc[p].stdout \/ proc[p].stderr
                                THEN StdCopy(bytes, [stdout |-> Empty, stderr |-> Empty])
                                ELSE @]

(* the copy loop (docker.go:135-146): the bytes read go to buf (through the
   TeeReader, or directly); with both sinks given StdCopy splits them *)
CopyInto(p, bytes) ==
    [proc[p] EXCEPT !.buf = bytes,
                    !.sinks = IF proc[p].stdout /\ proc[p].stderr
                                THEN StdCopy(bytes, [stdout |-> Empty, stderr |-> Empty])
                                ELSE @]

Unread(p) == Len(StreamOf(proc[p].execId)) - Len(proc[p].buf)

ExecContainer_CopyRead(p) ==
    /\ proc[p].op = "ExecContainer" /\ proc[p].pc = "copy"
    /\ Unread(p) > 0
    /\ proc' = [proc EXCEPT ![p] = CopyInto(p, StreamOf(proc[p].execId))]
    /\ UNCHANGED <<containers, execs, handles>>

CopyEnd_Fatal(local, err) ==
    IF err # Nil
      THEN [local EXCEPT !.pc = "done", !.copyErr = err, !.cancelled = TRUE, !.closes = @ + 1,
                         !.ret = [code |-> -1, out |-> Empty, err |-> err]]
      ELSE [local EXCEPT !.pc = "inspect", !.copyErr = err]

(* the copy ends, at the end of the stream or with an error after n more bytes:
   an error is logged and the call goes on to the inspect *)
CopyEnd(local, err) == [local EXCEPT !.pc = "inspect", !.copyErr = err]

ExecContainer_CopyEOF(p) ==
    /\ proc[p].op = "ExecContainer" /\ proc[p].pc = "copy"
    /\ Unread(p) = 0
    /\ execs[proc[p].execId].status = "exited"
    /\ proc' = [proc EXCEPT ![p] = CopyEnd(proc[p], Nil)]
    /\ UNCHANGED <<containers, execs, handles>>

ExecContainer_CopyError(p, cuts) ==
    /\ proc[p].op = "ExecContainer" /\ proc[p].pc = "copy"
    /\ \E n \in cuts \cap 0..Unread(p) :
          LET bytes == SubSeq(StreamOf(proc[p].execId), 1, Len(proc[p].buf) + n)
          IN  proc' = [proc EXCEPT ![p] = CopyEnd(CopyInto(p, bytes), ErrRead)]
    /\ UNCHANGED <<containers, execs, handles>>

(* ContainerExecInspect and the return (docker.go:148-154) *)
ExecInspectErrs(p) == IF Expired(p) THEN {ErrDeadline} ELSE {Nil, ErrRuntime}

ExecReturn(inspectResp, buf, err) == [code |-> inspectResp.ExitCode, out |-> buf, err |-> err]

ExecContainer_Inspect(p) ==
    /\ proc[p].op = "ExecContainer" /\ proc[p].pc = "inspect"
    /\ \E err \in ExecInspectErrs(p) :
          LET e == execs[proc[p].execId]
              inspectResp == [ExitCode |-> e.ExitCode, Running |-> e.status = "running"]
              call == Call("ContainerExecInspect", proc[p].execId, << >>, err,
                           IF err = Nil THEN inspectResp ELSE Empty)
          IN  proc' = [proc EXCEPT ![p] =
                  IF err # Nil
                    THEN ExecFail(p, call, 1)
                    ELSE [@ EXCEPT !.pc = "done", !.calls = Append(@, call),
                                   !.cancelled = TRUE, !.closes = @ + 1,
                                   !.ret = ExecReturn(inspectResp, proc[p].buf, err)]]
    /\ UNCHANGED <<containers, execs, handles>>

(* ---- the runtime runs the sessions ---- *)
ExecWrite(e) ==
    /\ execs[e].status = "running"
    /\ execs[e].emitted < Len(execs[e].cmd.frames)
    /\ execs' = [execs EXCEPT ![e].emitted = @ + 1]
    /\ UNCHANGED <<containers, proc, handles>>

ExecExit(e) ==
    /\ execs[e].status = "running"
    /\ execs[e].emitted = Len(execs[e].cmd.frames)
    /\ execs' = [execs EXCEPT ![e].status = "exited", ![e].ExitCode = execs[e].cmd.code]
    /\ UNCHANGED <<containers, proc, handles>>

(* ---- time ---- *)
InExec(p) == proc[p].op = "ExecContainer" /\ proc[p].pc # "done"

(* a call bound to the context returns by the deadline; a read of the attached
   stream waits for as long as the session has nothing more to deliver *)
CanWait(p) ==
    IF proc[p].pc = "copy"
      THEN Unread(p) = 0 /\ execs[proc[p].execId].status = "running"
      ELSE ~Expired(p)

Tick ==
    /\ \E p \in Procs : InExec(p) /\ proc[p].elapsed < MaxTime
    /\ \A p \in Procs : InExec(p) => CanWait(p)
    /\ proc' = [p \in Procs |->
                  IF InExec(p) /\ proc[p].elapsed < MaxTime
                    THEN [proc[p] EXCEPT !.elapsed = @ + 1] ELSE proc[p]]
    /\ UNCHANGED <<containers, execs, handles>>

(* ---- the caller takes the result ---- *)
Return(p) ==
    /\ proc[p].pc = "done"
    /\ proc' = [proc EXCEPT ![p] = Idle]
    /\ handles' = IF proc[p].op = "RunImage" /\ proc[p].ret.ok
                    THEN handles \cup {proc[p].ret.id} ELSE handles
    /\ UNCHANGED <<containers, execs>>

(* One step of the system: a step of a caller in P, of a session, or of time.
   reqs are the requests callers make, cmds the commands they run, cuts the
   numbers of bytes a failing read may still deliver. *)
Step(P, reqs, cmds, cuts) ==
    \/ Tick
    \/ \E e \in DOMAIN execs : ExecWrite(e) \/ ExecExit(e)
    \/ \E p \in P :
        \/ ExecContainer_Begin(p, cmds)
        \/ ExecContainer_Create(p)
        \/ ExecContainer_Attach(p)
        \/ ExecContainer_CopyRead(p)
        \/ ExecContainer_CopyEOF(p)
        \/ ExecContainer_CopyError(p, cuts)
        \/ ExecContainer_Inspect(p)
        \/ RunImage_Create(p, reqs)
        \/ RunImage_Start(p)
        \/ CleanContainer(p)
        \/ GetContainerIP(p)
        \/ GetContainerLogs_Request(p)
        \/ GetContainerLogs_Read(p)
        \/ Return(p)

(* Spec: concurrent callers; plain or fully restricted sandboxes, short commands *)
PlainRequests == {r \in Requests : r.ReadonlyRootfs = r.mask /\ r.networkdisabled = r.mask
                                    /\ r.networkhosted = ~r.mask}
ShortCommands == {[frames |-> << >>, code |-> 0],
                  [frames |-> <<[stream |-> StdType.Stdout, payload |-> <<104>>]>>, code |-> 1]}
Next == Step(Procs, PlainRequests, ShortCommands, {0})

Spec == Init /\ [][Next]_vars

(* SpecSeq: one caller, every request, every command, a read may fail after any byte *)
NextSeq == Step({"p1"}, Requests, Commands, 0..(MaxFrames * (StdWriterPrefixLen + MaxPayload)))

SpecSeq == Init /\ [][NextSeq]_vars

(* SpecMux: one caller running commands of up to MaxFrames + 1 frames that all
   exit with 0, in a plain sandbox; a read may fail after any byte *)
LongCommands == [frames : SeqsUpTo(Frames, MaxFrames + 1), code : {0}]
NextMux == Step({"p1"}, {r \in PlainRequests : ~r.mask}, LongCommands,
                0..((MaxFrames + 1) * (StdWriterPrefixLen + MaxPayload)))

SpecMux == Init /\ [][NextMux]_vars

(* ======================= properties ======================= *)
RunImageDone(p) == proc[p].op = "RunImage" /\ proc[p].pc = "done"
ExecDone(p) == proc[p].op = "ExecContainer" /\ proc[p].pc = "done"
LastCall(p) == proc[p].calls[Len(proc[p].calls)]

(* C1: RunImage returns (true, id), id non-empty and the identifier the create
   call returned, only when the create call and the start call both succeeded;
   when either fails it returns (false, ""). *)
C1_RunImageResult ==
    \A p \in Procs : RunImageDone(p) =>
        LET calls == proc[p].calls
            both == /\ Len(calls) = 2
                    /\ calls[1].api = "ContainerCreate" /\ calls[1].err = Nil
                    /\ calls[2].api = "ContainerStart" /\ calls[2].err = Nil
        IN  IF both
              THEN proc[p].ret = [ok |-> TRUE, id |-> calls[1].resp] /\ proc[p].ret.id # Empty
              ELSE proc[p].ret = [ok |-> FALSE, id |-> Empty]

C1_Witness ==
    \E p \in Procs : RunImageDone(p) /\ proc[p].ret.ok /\ proc[p].ret.id # Empty

(* C2: while the command is still running after the deadline, by more than the
   margin, ExecContainer has returned, with exit code -1 and an error. *)
C2_ReturnsAtDeadline ==
    \A p \in Procs :
        (/\ proc[p].op = "ExecContainer"
         /\ proc[p].execId # 0
         /\ execs[proc[p].execId].status = "running"
         /\ proc[p].elapsed > proc[p].timeout + Margin)
        => (proc[p].pc = "done" /\ proc[p].ret.code = -1 /\ proc[p].ret.err # Nil)

(* C3: when the command finished and create, attach, copy and inspect all
   succeeded, ExecContainer returns the command's exit code, no error, and
   exactly the bytes the process wrote. *)
C3_ExactTranscript ==
    \A p \in Procs :
        (ExecDone(p) /\ proc[p].ret.err = Nil /\ proc[p].copyErr = Nil) =>
            LET e == execs[proc[p].execId]
            IN  /\ proc[p].ret.code = e.ExitCode
                /\ proc[p].ret.out = Written(SubSeq(e.cmd.frames, 1, e.emitted))

(* C4: a failed session-create, attach or inspect makes ExecContainer return
   -1, an empty transcript and that step's error; an error is never returned
   with another exit code than -1. *)
C4_ErrorPaths ==
    \A p \in Procs : ExecDone(p) =>
        LET calls == proc[p].calls
            failed == {i \in 1..Len(calls) : calls[i].err # Nil}
        IN  /\ failed # {} =>
                /\ failed = {Len(calls)}
                /\ proc[p].ret = [code |-> -1, out |-> Empty, err |-> LastCall(p).err]
            /\ proc[p].ret.err # Nil => proc[p].ret.code = -1 /\ failed # {}

C4_Witness ==
    \E p \in Procs :
        /\ ExecDone(p) /\ proc[p].buf # Empty
        /\ LastCall(p).api = "ContainerExecInspect" /\ LastCall(p).err # Nil

(* C5: after a copy error, with or without demultiplexing, the inspect call is
   still issued, and when it succeeds ExecContainer returns the inspected exit
   code, no error, and the bytes captured before the copy failed. *)
C5_CopyErrorNotFatal ==
    \A p \in Procs :
        (proc[p].op = "ExecContainer" /\ proc[p].copyErr # Nil) =>
            /\ proc[p].pc \in {"inspect", "done"}
            /\ proc[p].pc = "done" =>
                /\ LastCall(p).api = "ContainerExecInspect"
                /\ LastCall(p).target = proc[p].execId
                /\ LastCall(p).err = Nil =>
                    /\ proc[p].ret = [code |-> LastCall(p).resp.ExitCode,
                                      out |-> proc[p].buf, err |-> Nil]
                    /\ proc[p].buf = SubSeq(StreamOf(proc[p].execId), 1, Len(proc[p].buf))

C5_Witness ==
    \E p \in Procs :
        /\ ExecDone(p) /\ proc[p].copyErr # Nil /\ proc[p].ret.err = Nil
        /\ proc[p].ret.out # Empty /\ proc[p].stdout /\ proc[p].stderr

(* C6: every CleanContainer call, on any identifier and however often repeated,
   issues exactly one runtime call, a stop of that identifier with a grace
   period of 1 second, and returns normally whatever the stop's outcome. *)
C6_CleanBestEffort ==
    \A p \in Procs : proc[p].op = "CleanContainer" =>
        /\ proc[p].pc = "done" /\ proc[p].ret.returned
        /\ Len(proc[p].calls) = 1
        /\ proc[p].calls[1].api = "ContainerStop"
        /\ proc[p].calls[1].target = proc[p].id
        /\ proc[p].calls[1].args = [Timeout |-> 1]

(* a second cleanup of a container that is already stopped and gone, next to a
   cleanup of an identifier that never existed: both stops failed, both returned *)
C6_Witness ==
    \E p, q \in Procs :
        /\ proc[p].op = "CleanContainer" /\ proc[p].pc = "done"
        /\ StateOf(proc[p].id) = "removed" /\ proc[p].calls[1].err # Nil
        /\ proc[q].op = "CleanContainer" /\ proc[q].pc = "done"
        /\ proc[q].id = NoSuchId /\ proc[q].calls[1].err # Nil

(* C7: GetContainerIP returns "" when the inspect call fails and the inspected
   address when it succeeds; GetContainerLogs returns ("", error) when the log
   request or the read of the stream fails and (whole content, nil) otherwise. *)
C7_InspectionAsymmetry ==
    \A p \in Procs :
        /\ (proc[p].op = "GetContainerIP" /\ proc[p].pc = "done") =>
              /\ Len(proc[p].calls) = 1 /\ proc[p].calls[1].api = "ContainerInspect"
              /\ proc[p].ret = IF proc[p].calls[1].err # Nil THEN ""
                               ELSE proc[p].calls[1].resp.IPAddress
        /\ (proc[p].op = "GetContainerLogs" /\ proc[p].pc = "done") =>
              /\ Len(proc[p].calls) = 1 /\ proc[p].calls[1].api = "ContainerLogs"
              /\ proc[p].ret =
                    IF proc[p].calls[1].err # Nil
                      THEN [str |-> Empty, err |-> proc[p].calls[1].err]
                    ELSE IF proc[p].readErr # Nil
                      THEN [str |-> Empty, err |-> proc[p].readErr]
                    ELSE [str |-> proc[p].calls[1].resp, err |-> Nil]

(* the same failure seen through both: the address is "", the logs an error *)
C7_Witness ==
    \E p, q \in Procs :
        /\ proc[p].op = "GetContainerIP" /\ proc[p].pc = "done"
        /\ proc[p].calls[1].err # Nil /\ proc[p].ret = ""
        /\ proc[q].op = "GetContainerLogs" /\ proc[q].pc = "done"
        /\ proc[q].id = proc[p].id
        /\ proc[q].ret.err # Nil /\ proc[q].ret.str = Empty

(* C8: the masked paths passed to the create call are the eleven fixed entries
   when mask is set and none when it is not, whatever the other request fields. *)
C8_MaskedPaths ==
    \A p \in Procs : (proc[p].op = "RunImage" /\ Len(proc[p].calls) >= 1) =>
        LET args == proc[p].calls[1].args
        IN  /\ proc[p].calls[1].api = "ContainerCreate"
            /\ args.HostConfig.MaskedPaths =
                  IF args.req.mask
                    THEN <<"/etc", "/sys", "/proc/tty", "/proc/sys", "/proc/sysrq-trigger",
                           "/proc/cmdline", "/proc/config.gz", "/proc/mounts", "/proc/fs",
                           "/proc/device-tree", "/proc/bus">>
                    ELSE << >>
            /\ Len(args.HostConfig.MaskedPaths) \in {0, 11}

C8_Witness ==
    \E p \in Procs :
        /\ proc[p].op = "RunImage" /\ Len(proc[p].calls) >= 1
        /\ proc[p].calls[1].args.req.mask
        /\ ~proc[p].calls[1].args.req.ReadonlyRootfs
        /\ Len(proc[p].calls[1].args.HostConfig.MaskedPaths) = 11

(* C9: the network mode passed to the create call is "host" exactly when
   networkhosted is set and "" otherwise; the network-disabled flag passed is
   networkdisabled; neither changes the other. *)
C9_NetworkFlags ==
    \A p \in Procs : (proc[p].op = "RunImage" /\ Len(proc[p].calls) >= 1) =>
        LET args == proc[p].calls[1].args
        IN  /\ args.HostConfig.NetworkMode = (IF args.req.networkhosted THEN "host" ELSE "")
            /\ args.Config.NetworkDisabled = args.req.networkdisabled

C9_Witness ==
    \E p \in Procs :
        /\ proc[p].op = "RunImage" /\ Len(proc[p].calls) >= 1
        /\ proc[p].calls[1].args.req.networkdisabled
        /\ ~proc[p].calls[1].args.req.networkhosted
        /\ proc[p].calls[1].args.HostConfig.NetworkMode = ""
        /\ proc[p].calls[1].args.Config.NetworkDisabled

(* C10: a container goes created -> running -> stopped (removed) and no other
   way; RunImage issues the start call only after a successful create, for the
   container created, and at most once; a container returned with ok is
   running when RunImage returns. *)
C10_StartAfterCreate ==
    \A p \in Procs : proc[p].op = "RunImage" =>
        LET calls == proc[p].calls
        IN  /\ Len(calls) \in 1..2
            /\ calls[1].api = "ContainerCreate"
            /\ calls[1].err # Nil => Len(calls) = 1
            /\ Len(calls) = 2 => /\ calls[2].api = "ContainerStart"
                                 /\ calls[2].target = calls[1].resp
                                 /\ Exists(calls[2].target)
            /\ (proc[p].pc = "done" /\ proc[p].ret.ok) => StateOf(proc[p].ret.id) = "running"

C10_StartedOnce == \A c \in DOMAIN containers : containers[c].starts <= 1

C10_Transition ==
    \A c \in DOMAIN containers :
        \/ containers'[c].state = containers[c].state
        \/ containers[c].state = "created" /\ containers'[c].state = "running"
        \/ containers[c].state = "running" /\ containers'[c].state = "removed"

C10_Lifecycle ==
    /\ [](C10_StartAfterCreate /\ C10_StartedOnce)
    /\ [][C10_Transition]_vars

(* one container stopped and gone, another just returned running *)
C10_Witness ==
    /\ \E c \in DOMAIN containers : containers[c].state = "removed" /\ containers[c].starts = 1
    /\ \E p \in Procs : RunImageDone(p) /\ proc[p].ret.ok /\ StateOf(proc[p].ret.id) = "running"

(* C11: with both sinks given, the stdout sink holds exactly the payloads of the
   stdout frames read, in stream order, the stderr sink those of the stderr
   frames, and the transcript buffer every raw byte read; with a sink missing
   the buffer holds the raw bytes read and neither sink receives a byte. *)
RECURSIVE FramesRead(_, _)
FramesRead(fs, n) ==
    IF fs = << >> \/ n < 8 + Len(Head(fs).payload) THEN << >>
    ELSE <<Head(fs)>> \o FramesRead(Tail(fs), n - (8 + Len(Head(fs).payload)))

RECURSIVE PayloadsOf(_, _)
PayloadsOf(fs, stream) ==
    IF fs = << >> THEN << >>
    ELSE (IF Head(fs).stream = stream THEN Head(fs).payload ELSE << >>)
         \o PayloadsOf(Tail(fs), stream)

C11_OutputRouting ==
    \A p \in Procs :
        (proc[p].op = "ExecContainer" /\ proc[p].execId # 0) =>
            LET e == execs[proc[p].execId]
                frames == SubSeq(e.cmd.frames, 1, e.emitted)
                read == FramesRead(frames, Len(proc[p].buf))
            IN  /\ proc[p].buf = SubSeq(Mux(frames), 1, Len(proc[p].buf))
                /\ IF proc[p].stdout /\ proc[p].stderr
                     THEN /\ proc[p].sinks.stdout = PayloadsOf(read, 1)
                          /\ proc[p].sinks.stderr = PayloadsOf(read, 2)
                     ELSE proc[p].sinks = [stdout |-> Empty, stderr |-> Empty]

(* two frames read and split: stderr first, then stdout *)
C11_Witness ==
    \E p \in Procs :
        /\ ExecDone(p) /\ proc[p].stdout /\ proc[p].stderr /\ proc[p].execId # 0
        /\ Len(execs[proc[p].execId].cmd.frames) = 2
        /\ execs[proc[p].execId].cmd.frames[1].stream = 2
        /\ execs[proc[p].execId].cmd.frames[2].stream = 1
        /\ proc[p].sinks.stdout # Empty /\ proc[p].sinks.stderr # Empty
        /\ Len(proc[p].buf) > Len(proc[p].sinks.stdout) + Len(proc[p].sinks.stderr)

(* C12: one ExecContainer call issues session-create, attach and inspect at most
   once each and in that order: attach only after a successful create, for the
   session created; the copy and the inspect only after a successful attach;
   nothing after a failed call. *)
ExecCallOrder == <<"ContainerExecCreate", "ContainerExecAttach", "ContainerExecInspect">>

C12_CallOrder ==
    \A p \in Procs : proc[p].op = "ExecContainer" =>
        LET calls == proc[p].calls
        IN  /\ Len(calls) <= 3
            /\ \A i \in 1..Len(calls) :
                  /\ calls[i].api = ExecCallOrder[i]
                  /\ i < Len(calls) => calls[i].err = Nil
                  /\ i > 1 => calls[i].target = calls[1].resp
            /\ Len(calls) >= 1 => calls[1].target = proc[p].id
            /\ (proc[p].pc \in {"copy", "inspect"} \/ proc[p].buf # Empty \/ proc[p].copyErr # Nil)
                  => (Len(calls) >= 2 /\ calls[2].err = Nil)
            /\ (proc[p].pc # "done" /\ Len(calls) >= 1) => LastCall(p).err = Nil

(* the three calls were issued and the inspect failed: the call ended there *)
C12_Witness ==
    \E p \in Procs :
        /\ ExecDone(p) /\ Len(proc[p].calls) = 3
        /\ proc[p].calls[3].err # Nil /\ proc[p].ret.code = -1

(* C13: when create succeeds and start fails, RunImage issues no further call
   (no stop, no remove) and returns no identifier: the container stays in the
   runtime in state created, and no caller ever holds its identifier. *)
Orphan(c) == containers[c].state = "created" /\ containers[c].starts >= 1

C13_StartFailure ==
    \A p \in Procs :
        (RunImageDone(p) /\ Len(proc[p].calls) >= 2 /\ proc[p].calls[2].err # Nil) =>
            /\ Len(proc[p].calls) = 2
            /\ proc[p].calls[2].api = "ContainerStart"
            /\ proc[p].ret = [ok |-> FALSE, id |-> Empty]
            /\ StateOf(proc[p].calls[1].resp) = "created"

C13_NoHandle == \A c \in DOMAIN containers : Orphan(c) => IdOf(c) \notin handles

C13_Stays == \A c \in DOMAIN containers : Orphan(c) => containers'[c] = containers[c]

C13_Orphaned ==
    /\ [](C13_StartFailure /\ C13_NoHandle)
    /\ [][C13_Stays]_vars

(* the orphan is still there after its RunImage returned and another container
   was run and cleaned up *)
C13_Witness ==
    /\ \A p \in Procs : proc[p].pc = "idle"
    /\ \E c, d \in DOMAIN containers : Orphan(c) /\ containers[d].state = "removed"

(* C14: ExecContainer issues no stop or kill; a session still running when the
   call has returned keeps running and can go on to its end; a running session
   ends only by finishing by itself or by a CleanContainer of its container. *)
C14_NoKillCall ==
    \A p \in Procs : proc[p].op = "ExecContainer" =>
        \A i \in 1..Len(proc[p].calls) :
            proc[p].calls[i].api \notin {"ContainerStop", "ContainerKill", "ContainerRemove"}

C14_CanGoOn ==
    \A p \in Procs :
        (ExecDone(p) /\ proc[p].execId # 0 /\ execs[proc[p].execId].status = "running") =>
            ENABLED (ExecWrite(proc[p].execId) \/ ExecExit(proc[p].execId))

C14_EndsByItselfOrCleanup ==
    \A e \in DOMAIN execs :
        (execs[e].status = "running" /\ execs'[e].status # "running") =>
            \/ /\ execs'[e].ExitCode = execs[e].cmd.code
               /\ execs[e].emitted = Len(execs[e].cmd.frames)
               /\ proc' = proc
            \/ \E p \in Procs :
                  /\ proc[p].pc = "idle" /\ proc'[p].op = "CleanContainer"
                  /\ proc'[p].id = execs[e].container
                  /\ proc'[p].calls[1].err = Nil

C14_CommandOutlivesCall ==
    /\ [](C14_NoKillCall /\ C14_CanGoOn)
    /\ [][C14_EndsByItselfOrCleanup]_vars

(* the call returned on the expired deadline and the command is still running *)
C14_Witness ==
    \E p \in Procs :
        /\ ExecDone(p) /\ proc[p].ret.err = ErrDeadline /\ proc[p].execId # 0
        /\ execs[proc[p].execId].status = "running"

(* C15: every create call of RunImage asks for auto-removal, whatever the
   request, so a successful stop of a running container by CleanContainer
   leaves the container removed, and the service issues no remove call. *)
C15_AutoRemoveAsked ==
    /\ \A p \in Procs : (proc[p].op = "RunImage" /\ Len(proc[p].calls) >= 1) =>
          proc[p].calls[1].args.HostConfig.AutoRemove = TRUE
    /\ \A c \in DOMAIN containers : containers[c].AutoRemove = TRUE
    /\ \A p \in Procs : \A i \in 1..Len(proc[p].calls) :
          proc[p].calls[i].api # "ContainerRemove"

C15_StopRemoves ==
    \A p \in Procs :
        (/\ proc[p].pc = "idle" /\ proc'[p].op = "CleanContainer"
         /\ proc'[p].calls[1].err = Nil
         /\ StateOf(proc'[p].id) = "running")
        => containers'[NumOf(proc'[p].id)].state = "removed"

C15_AutoRemoval ==
    /\ []C15_AutoRemoveAsked
    /\ [][C15_StopRemoves]_vars

(* a container stopped with success, by the one stop call, is gone *)
C15_Witness ==
    \E p \in Procs :
        /\ proc[p].op = "CleanContainer" /\ proc[p].pc = "done"
        /\ proc[p].calls[1].err = Nil /\ Len(proc[p].calls) = 1
        /\ StateOf(proc[p].id) = "removed"

(* C16: the service keeps no state of its own between calls: every runtime call
   of an operation targets the identifier the operation was called with, or
   what the operation itself created; a step of GetContainerIP or
   GetContainerLogs changes nothing of the runtime nor of any other call in
   progress; what ExecContainer returns is the inspected exit code of its own
   session and the bytes it read from it, whatever ran beside it. *)
C16_OwnTargets ==
    \A p \in Procs : \A i \in 1..Len(proc[p].calls) :
        LET calls == proc[p].calls
        IN  IF proc[p].op = "RunImage"
              THEN calls[i].target = (IF i = 1 THEN Empty ELSE calls[1].resp)
            ELSE IF proc[p].op = "ExecContainer"
              THEN calls[i].target = (IF i = 1 THEN proc[p].id ELSE calls[1].resp)
            ELSE calls[i].target = proc[p].id

C16_OwnResult ==
    \A p \in Procs : (ExecDone(p) /\ proc[p].ret.err = Nil) =>
        /\ execs[proc[p].execId].container = proc[p].id
        /\ proc[p].ret.code = LastCall(p).resp.ExitCode
        /\ proc[p].ret.out = SubSeq(StreamOf(proc[p].execId), 1, Len(proc[p].ret.out))

C16_ReadOnlySteps ==
    \A q \in Procs :
        (proc'[q] # proc[q] /\ proc'[q].op \in {"GetContainerIP", "GetContainerLogs"}) =>
            /\ containers' = containers /\ execs' = execs /\ handles' = handles
            /\ \A p \in Procs \ {q} : proc'[p] = proc[p]

C16_NoInterference ==
    /\ [](C16_OwnTargets /\ C16_OwnResult)
    /\ [][C16_ReadOnlySteps]_vars

(* ExecContainer has captured output and is about to inspect while
   GetContainerLogs on the same container is between its request and its read *)
C16_Witness ==
    \E p, q \in Procs :
        /\ proc[p].op = "ExecContainer" /\ proc[p].pc = "inspect" /\ proc[p].buf # Empty
        /\ proc[q].op = "GetContainerLogs" /\ proc[q].pc = "read"
        /\ proc[q].id = proc[p].id

(* C17: when ExecContainer returns without error, its session has ended and the
   code returned is the code the command exited with. *)
C17_ExitCodeOfFinished ==
    \A p \in Procs : (ExecDone(p) /\ proc[p].ret.err = Nil) =>
        /\ ~LastCall(p).resp.Running
        /\ execs[proc[p].execId].status = "exited"
        /\ proc[p].ret.code = execs[proc[p].execId].ExitCode

(* C18: on every return of ExecContainer the deadline context has been
   cancelled, and the attached stream has been closed exactly once when the
   attach had succeeded and not at all when it had not; before the return
   neither has happened. *)
C18_Released ==
    \A p \in Procs : proc[p].op = "ExecContainer" =>
        LET attached == Len(proc[p].calls) >= 2 /\ proc[p].calls[2].err = Nil
        IN  IF proc[p].pc = "done"
              THEN proc[p].cancelled /\ proc[p].closes = (IF attached THEN 1 ELSE 0)
              ELSE ~proc[p].cancelled /\ proc[p].closes = 0

(* the return after a failed inspect: cancelled, stream closed once *)
C18_Witness ==
    \E p \in Procs :
        /\ ExecDone(p) /\ Len(proc[p].calls) = 3 /\ proc[p].calls[3].err # Nil
        /\ proc[p].cancelled /\ proc[p].closes = 1

====
